---- MODULE Spec2Model ----
(***************************************************************************)
(* Constraint generation of the flow-, context- and field-insensitive      *)
(* Andersen analysis in src/src/analysis/simple_anderson.rs.               *)
(*                                                                         *)
(* The engine (struct SimpleAnderson) is driven through its public API,    *)
(* clear() and analyze(instance).  One analyze call is followed step by    *)
(* step: reset, visit_body's entry, one step per MIR statement, the end of *)
(* each basic block, visit_body's exit, and the return of analyze.         *)
(***************************************************************************)
EXTENDS Integers, Sequences, FiniteSets, TLC

\* ------------------------------------------------------------------------
\* Bounds of the model
\* ------------------------------------------------------------------------
MaxLocals == 2      \* declared locals of the analysed body
MaxDeref == 2       \* longest chain of Deref projections in a place
MaxStmts == 2       \* statements of the analysed body
MaxCalls == 3       \* public calls made on one engine

\* ------------------------------------------------------------------------
\* The host program representation (rustc MIR), as far as the engine reads it
\* ------------------------------------------------------------------------
Instances == {"A", "B", "E"}

\* the two answers of rcx.instance_body: Err(MirInstantiationError) or Ok(body)
NoBody == [ok |-> FALSE]

RECURSIVE DerefChain(_)
DerefChain(k) == IF k = 0 THEN << >> ELSE <<"Deref">> \o DerefChain(k - 1)

DerefProjections == {DerefChain(k) : k \in 0..MaxDeref}

MkPlace(local, projection) == [local |-> local, projection |-> projection]

OperandPlace(kind, place) == [kind |-> kind, place |-> place]

OperandConstant == [kind |-> "Constant"]

\* Assign(dst, Use(operand)) and Assign(dst, Cast(_, operand, _)), with the
\* answers of rustc's typing for the two sides (is_any_ptr)
AssignStmt(rvalue, dst, operand, dst_is_ptr, src_is_ptr) ==
    [kind |-> "Assign", rvalue |-> rvalue, dst |-> dst, operand |-> operand,
     dst_is_ptr |-> dst_is_ptr, src_is_ptr |-> src_is_ptr]

\* Assign(dst, Ref(_, _, src)) and Assign(dst, AddressOf(_, src))
RefStmt(rvalue, dst, src, dst_is_ptr) ==
    [kind |-> "Assign", rvalue |-> rvalue, dst |-> dst, src |-> src,
     dst_is_ptr |-> dst_is_ptr]

\* Assign with an rvalue the engine never looks into
OpaqueAssignStmt(rvalue) == [kind |-> "Assign", rvalue |-> rvalue]

OtherStmt(kind) == [kind |-> kind]

\* the statements of a body with n declared locals: the destination is a
\* place of local 0, the source a place of the last local
PeelingStmts(n) ==
    {AssignStmt("Use", MkPlace(0, dp), OperandPlace("Copy", MkPlace(n - 1, sp)), TRUE, TRUE)
        : dp \in DerefProjections, sp \in DerefProjections}
    \cup
    {RefStmt("Ref", MkPlace(0, dp), MkPlace(n - 1, sp), TRUE)
        : dp \in DerefProjections, sp \in DerefProjections}

TwinStmts(n) ==
    {AssignStmt("Cast", MkPlace(n - 1, << >>), OperandPlace("Move", MkPlace(0, <<"Deref">>)), TRUE, TRUE),
     RefStmt("AddressOf", MkPlace(n - 1, << >>), MkPlace(0, << >>), TRUE)}

ProjectionStmts(n) ==
    {AssignStmt("Use", MkPlace(0, <<"Field">>), OperandPlace("Copy", MkPlace(n - 1, <<"Deref", "Deref">>)), TRUE, TRUE),
     AssignStmt("Use", MkPlace(0, <<"Deref">>), OperandPlace("Move", MkPlace(n - 1, <<"Deref", "Field">>)), TRUE, TRUE),
     RefStmt("Ref", MkPlace(0, <<"Deref", "Deref">>), MkPlace(n - 1, <<"Field">>), TRUE),
     RefStmt("AddressOf", MkPlace(0, <<"Deref", "Field">>), MkPlace(n - 1, << >>), TRUE)}

TypingStmts(n) ==
    {AssignStmt("Use", MkPlace(0, << >>), OperandConstant, TRUE, TRUE),
     AssignStmt("Cast", MkPlace(0, <<"Deref">>), OperandConstant, TRUE, FALSE),
     AssignStmt("Use", MkPlace(0, << >>), OperandPlace("Copy", MkPlace(n - 1, << >>)), TRUE, FALSE),
     AssignStmt("Use", MkPlace(0, << >>), OperandPlace("Copy", MkPlace(n - 1, <<"Deref">>)), FALSE, TRUE),
     AssignStmt("Cast", MkPlace(0, << >>), OperandPlace("Move", MkPlace(n - 1, << >>)), FALSE, FALSE),
     AssignStmt("Use", MkPlace(0, << >>), OperandConstant, FALSE, FALSE)}

OpaqueStmts ==
    {OpaqueAssignStmt(r) : r \in {"BinaryOp", "CheckedBinaryOp", "UnaryOp", "Aggregate"}}
    \cup {OtherStmt(k) : k \in {"StorageLive", "StorageDead", "Nop", "SetDiscriminant"}}

StmtUniverse(n) ==
    IF n = 0 THEN OpaqueStmts
    ELSE PeelingStmts(n) \cup TwinStmts(n) \cup ProjectionStmts(n)
         \cup TypingStmts(n) \cup OpaqueStmts

RECURSIVE StmtLists(_, _)
StmtLists(n, len) ==
    IF len = 0 THEN {<< >>}
    ELSE LET shorter == StmtLists(n, len - 1)
         IN  shorter \cup {Append(l, s) : l \in {x \in shorter : Len(x) = len - 1},
                                          s \in StmtUniverse(n)}

MkBody(n, blocks) == [ok |-> TRUE, local_decls |-> n, basic_blocks |-> blocks]

\* bodies of one basic block over the whole statement universe
WideBodies == {MkBody(MaxLocals, <<l>>) : l \in StmtLists(MaxLocals, MaxStmts)}

\* a few bodies of several basic blocks (an empty block holds a terminator only)
MenuBodies ==
    {MkBody(0, <<<<OtherStmt("Nop")>>>>),
     MkBody(1, <<<<RefStmt("Ref", MkPlace(0, << >>), MkPlace(0, << >>), TRUE)>>, << >>>>),
     MkBody(2, <<<<AssignStmt("Use", MkPlace(0, << >>), OperandConstant, TRUE, TRUE)>>,
                 << >>,
                 <<AssignStmt("Use", MkPlace(0, <<"Deref">>),
                              OperandPlace("Copy", MkPlace(1, <<"Deref", "Deref">>)), TRUE, TRUE),
                   RefStmt("AddressOf", MkPlace(1, <<"Deref", "Deref">>), MkPlace(0, << >>), TRUE)>>>>),
     MkBody(2, <<<<AssignStmt("Use", MkPlace(0, << >>),
                              OperandPlace("Copy", MkPlace(1, <<"Deref", "Deref", "Deref">>)), TRUE, TRUE)>>,
                 <<AssignStmt("Cast", MkPlace(1, <<"Deref", "Deref", "Deref">>),
                              OperandPlace("Move", MkPlace(0, << >>)), TRUE, TRUE),
                   RefStmt("Ref", MkPlace(0, <<"Deref", "Deref", "Deref">>), MkPlace(1, << >>), TRUE)>>>>),
     MkBody(3, <<<<AssignStmt("Use", MkPlace(2, << >>),
                              OperandPlace("Move", MkPlace(1, <<"Deref", "Deref">>)), TRUE, TRUE),
                   OtherStmt("SetDiscriminant")>>,
                 <<AssignStmt("Cast", MkPlace(0, << >>),
                              OperandPlace("Copy", MkPlace(2, <<"Deref", "Deref">>)), TRUE, TRUE)>>>>)}

\* what rcx.instance_body answers for each instance the driver may pass
WidePrograms == {[i \in {"A"} |-> b] : b \in WideBodies}

MenuPrograms ==
    {[i \in Instances |-> IF i = "A" THEN a ELSE IF i = "B" THEN b ELSE NoBody]
        : a \in MenuBodies, b \in MenuBodies}

\* ------------------------------------------------------------------------
\* The engine: struct SimpleAnderson, and the diagnostic channel (log)
\* ------------------------------------------------------------------------
VARIABLES
    bodies,             \* rcx: the body (or the error) of each instance
    location_factory,   \* the declared type of each allocated location
    call_stack,         \* Vec<Instance>
    constraints,        \* Vec<HashSet<Constraint>>, bucket i + 1 is location id i
    local_var_map,      \* HashMap<Instance, Vec<Location>>
    log,                \* the errors reported by log_err! during the current call
    pc,                 \* where the driver and the engine are
    instance,           \* the argument of the analyze call in progress
    bb,                 \* index of the basic block being iterated
    st,                 \* index of the next statement of that block
    calls_left,         \* public calls the driver still makes
    last_call,          \* the last public call that returned
    visited             \* whether the latest analyze call went through a body

vars == <<bodies, location_factory, call_stack, constraints, local_var_map, log,
          pc, instance, bb, st, calls_left, last_call, visited>>

\* the engine's fields and the log, as the value the handlers transform
Self ==
    [location_factory |-> location_factory, call_stack |-> call_stack,
     constraints |-> constraints, local_var_map |-> local_var_map,
     log |-> log, panicked |-> FALSE]

EmptyMap == [i \in {} |-> << >>]

Location(id, ty) == [id |-> id, ty |-> ty]

Constraint(kind, src) == [kind |-> kind, src |-> src]

\* LocationFactory (super module): dense ids, the type recorded per id
LocationFactory_new == << >>

LocationFactory_clear(factory) == << >>

LocationFactory_num_locations(factory) == Len(factory)

LocationFactory_next(factory, ty) ==
    [factory |-> Append(factory, ty), location |-> Location(Len(factory), ty)]

num_locations(self) == LocationFactory_num_locations(self.location_factory)

\* AnalysisError::kind of each SimpleAndersonError
AnalysisError_kind(err) == IF err = "BodyNotFound" THEN "OutOfScope" ELSE "Unimplemented"

\* log_err!(kind): build the error and report it
log_err(self, kind) == [self EXCEPT !.log = Append(@, kind)]

clear(self) ==
    [self EXCEPT !.location_factory = LocationFactory_clear(@),
                 !.call_stack = << >>,
                 !.constraints = << >>]

local_to_location(self, local) ==
    self.local_var_map[self.call_stack[Len(self.call_stack)]][local + 1]

\* the loop of lower_mir_place stepping over the elements that are not Deref
RECURSIVE count_derefs_lenient(_, _, _)
count_derefs_lenient(projection, i, count) ==
    IF i > Len(projection) THEN [ok |-> TRUE, count |-> count]
    ELSE IF projection[i] = "Deref" THEN count_derefs_lenient(projection, i + 1, count + 1)
    ELSE count_derefs_lenient(projection, i + 1, count)

\* the loop of lower_mir_place over place.projection, from element i on
RECURSIVE count_derefs(_, _, _)
count_derefs(projection, i, count) ==
    IF i > Len(projection) THEN [ok |-> TRUE, count |-> count]
    ELSE IF projection[i] = "Deref" THEN count_derefs(projection, i + 1, count + 1)
    ELSE [ok |-> FALSE, err |-> "UnsupportedProjection"]

lower_mir_place(self, place) ==
    LET base == local_to_location(self, place.local)
        r == count_derefs(place.projection, 1, 0)
    IN  IF r.ok THEN [ok |-> TRUE, place |-> [base |-> base, deref_count |-> r.count]]
        ELSE [ok |-> FALSE, err |-> r.err]

analyzed(self, inst) == inst \in DOMAIN self.local_var_map

\* gen_location without the push of the new location's bucket
gen_location_no_bucket(self, ty) ==
    LET n == LocationFactory_next(self.location_factory, ty)
    IN  [self |-> [self EXCEPT !.location_factory = n.factory],
         location |-> n.location]

gen_location(self, ty) ==
    LET n == LocationFactory_next(self.location_factory, ty)
    IN  [self |-> [self EXCEPT !.constraints = Append(@, {}),
                               !.location_factory = n.factory],
         location |-> n.location]

is_operand_ptr(stmt) == stmt.src_is_ptr

\* is_place_ptr answering that no place is pointer-typed
is_place_ptr_never(stmt) == FALSE

is_place_ptr(stmt) == stmt.dst_is_ptr

\* add_constraint that replaces the bucket instead of inserting into it
add_constraint_overwrite(self, dst_id, constraint) ==
    [self EXCEPT !.constraints[dst_id + 1] = {constraint}]

add_constraint(self, dst_id, constraint) ==
    [self EXCEPT !.constraints[dst_id + 1] = @ \cup {constraint}]

\* the peeling loop loading each fresh location from itself
RECURSIVE peel_self_load(_, _, _)
peel_self_load(self, current, floor) ==
    IF current.deref_count > floor
    THEN LET g == gen_location(self, "None")
             next_base == g.location
         IN  peel_self_load(
                  add_constraint(g.self, next_base.id, Constraint("Load", next_base.id)),
                  [base |-> next_base, deref_count |-> current.deref_count - 1],
                  floor)
    ELSE [self |-> self, current |-> current]

\* the peeling loop with >= in place of > in its condition
RECURSIVE peel_once_more(_, _, _)
peel_once_more(self, current, floor) ==
    IF current.deref_count >= floor /\ current.deref_count > 0
    THEN LET g == gen_location(self, "None")
             next_base == g.location
         IN  peel_once_more(
                  add_constraint(g.self, next_base.id, Constraint("Load", current.base.id)),
                  [base |-> next_base, deref_count |-> current.deref_count - 1],
                  floor)
    ELSE [self |-> self, current |-> current]

\* the peeling loop: while current.deref_count > floor, load the current base
\* into a fresh location and go on from it with one dereference less
RECURSIVE peel(_, _, _)
peel(self, current, floor) ==
    IF current.deref_count > floor
    THEN LET g == gen_location(self, "None")
             next_base == g.location
         IN  peel(add_constraint(g.self, next_base.id, Constraint("Load", current.base.id)),
                  [base |-> next_base, deref_count |-> current.deref_count - 1],
                  floor)
    ELSE [self |-> self, current |-> current]

\* handle_place_to_place with the source of a load peeled like that of a store
handle_place_to_place_eager(self, dst, src) ==
    IF dst.deref_count = 0 /\ src.deref_count = 0
    THEN add_constraint(self, dst.base.id, Constraint("Copy", src.base.id))
    ELSE IF dst.deref_count = 0
    THEN LET p == peel(self, src, 0)
         IN  add_constraint(p.self, dst.base.id, Constraint("Load", p.current.base.id))
    ELSE LET p == peel(self, src, 0)
             q == peel(p.self, dst, 1)
         IN  add_constraint(q.self, q.current.base.id, Constraint("Store", p.current.base.id))

\* handle_place_to_place peeling the destination of a store before its source
handle_place_to_place_dst_first(self, dst, src) ==
    IF dst.deref_count = 0 /\ src.deref_count = 0
    THEN add_constraint(self, dst.base.id, Constraint("Copy", src.base.id))
    ELSE IF dst.deref_count = 0
    THEN LET p == peel(self, src, 1)
         IN  add_constraint(p.self, dst.base.id, Constraint("Load", p.current.base.id))
    ELSE LET q == peel(self, dst, 1)
             p == peel(q.self, src, 0)
         IN  add_constraint(p.self, q.current.base.id, Constraint("Store", p.current.base.id))

handle_place_to_place(self, dst, src) ==
    IF dst.deref_count = 0 /\ src.deref_count = 0
    THEN add_constraint(self, dst.base.id, Constraint("Copy", src.base.id))
    ELSE IF dst.deref_count = 0
    THEN LET p == peel(self, src, 1)
         IN  add_constraint(p.self, dst.base.id, Constraint("Load", p.current.base.id))
    ELSE LET p == peel(self, src, 0)
             q == peel(p.self, dst, 1)
         IN  add_constraint(q.self, q.current.base.id, Constraint("Store", p.current.base.id))

\* handle_ref with the two ids of AddrOf exchanged
handle_ref_swapped(self, stmt) ==
    IF ~is_place_ptr(stmt) THEN [self EXCEPT !.panicked = TRUE]
    ELSE
    LET d == lower_mir_place(self, stmt.dst)
        s == lower_mir_place(self, stmt.src)
    IN  IF ~d.ok THEN self
        ELSE IF ~s.ok THEN self
        ELSE LET dst == d.place
                 src == s.place
             IN  IF src.deref_count = 0
                 THEN IF dst.deref_count = 0
                      THEN add_constraint(self, src.base.id, Constraint("AddrOf", dst.base.id))
                      ELSE LET q == peel(self, dst, 1)
                           IN  add_constraint(q.self, q.current.base.id,
                                              Constraint("StoreAddr", src.base.id))
                 ELSE handle_place_to_place(self, dst,
                          [base |-> src.base, deref_count |-> src.deref_count - 1])

\* handle_ref peeling the destination down to depth 0
handle_ref_peel_all(self, stmt) ==
    IF ~is_place_ptr(stmt) THEN [self EXCEPT !.panicked = TRUE]
    ELSE
    LET d == lower_mir_place(self, stmt.dst)
        s == lower_mir_place(self, stmt.src)
    IN  IF ~d.ok THEN self
        ELSE IF ~s.ok THEN self
        ELSE LET dst == d.place
                 src == s.place
             IN  IF src.deref_count = 0
                 THEN IF dst.deref_count = 0
                      THEN add_constraint(self, dst.base.id, Constraint("AddrOf", src.base.id))
                      ELSE LET q == peel(self, dst, 0)
                           IN  add_constraint(q.self, q.current.base.id,
                                              Constraint("StoreAddr", src.base.id))
                 ELSE handle_place_to_place(self, dst,
                          [base |-> src.base, deref_count |-> src.deref_count - 1])

\* handle_ref passing the source on without cancelling a dereference
handle_ref_keep_deref(self, stmt) ==
    IF ~is_place_ptr(stmt) THEN [self EXCEPT !.panicked = TRUE]
    ELSE
    LET d == lower_mir_place(self, stmt.dst)
        s == lower_mir_place(self, stmt.src)
    IN  IF ~d.ok THEN self
        ELSE IF ~s.ok THEN self
        ELSE LET dst == d.place
                 src == s.place
             IN  IF src.deref_count = 0
                 THEN IF dst.deref_count = 0
                      THEN add_constraint(self, dst.base.id, Constraint("AddrOf", src.base.id))
                      ELSE LET q == peel(self, dst, 1)
                           IN  add_constraint(q.self, q.current.base.id,
                                              Constraint("StoreAddr", src.base.id))
                 ELSE handle_place_to_place(self, dst,
                          [base |-> src.base, deref_count |-> src.deref_count])

handle_ref(self, stmt) ==
    IF ~is_place_ptr(stmt) THEN [self EXCEPT !.panicked = TRUE]
    ELSE
    LET d == lower_mir_place(self, stmt.dst)
        s == lower_mir_place(self, stmt.src)
    IN  IF ~d.ok THEN self
        ELSE IF ~s.ok THEN self
        ELSE LET dst == d.place
                 src == s.place
             IN  IF src.deref_count = 0
                 THEN IF dst.deref_count = 0
                      THEN add_constraint(self, dst.base.id, Constraint("AddrOf", src.base.id))
                      ELSE LET q == peel(self, dst, 1)
                           IN  add_constraint(q.self, q.current.base.id,
                                              Constraint("StoreAddr", src.base.id))
                 ELSE handle_place_to_place(self, dst,
                          [base |-> src.base, deref_count |-> src.deref_count - 1])

\* handle_assign without the two questions about pointer types
handle_assign_untyped(self, stmt) ==
    IF stmt.operand.kind \in {"Copy", "Move"}
    THEN LET d == lower_mir_place(self, stmt.dst)
             s == lower_mir_place(self, stmt.operand.place)
         IN  IF ~d.ok THEN self
             ELSE IF ~s.ok THEN self
             ELSE handle_place_to_place(self, d.place, s.place)
    ELSE log_err(self, "UnsupportedConstantPointer")

\* handle_assign treating a constant pointer as a plain copy of local 0
handle_assign_constant_copy(self, stmt) ==
    LET src_is_ptr == is_operand_ptr(stmt)
        dst_is_ptr == is_place_ptr(stmt)
    IN  IF src_is_ptr /\ dst_is_ptr
        THEN LET d == lower_mir_place(self, stmt.dst)
                 s == lower_mir_place(self,
                         IF stmt.operand.kind \in {"Copy", "Move"} THEN stmt.operand.place
                         ELSE MkPlace(0, << >>))
             IN  IF ~d.ok THEN self
                 ELSE IF ~s.ok THEN self
                 ELSE handle_place_to_place(self, d.place, s.place)
        ELSE IF dst_is_ptr /\ ~src_is_ptr
        THEN log_err(self, "UnsupportedConstantPointer")
        ELSE self

handle_assign(self, stmt) ==
    LET src_is_ptr == is_operand_ptr(stmt)
        dst_is_ptr == is_place_ptr(stmt)
    IN  IF src_is_ptr /\ dst_is_ptr
        THEN IF stmt.operand.kind \in {"Copy", "Move"}
             THEN LET d == lower_mir_place(self, stmt.dst)
                      s == lower_mir_place(self, stmt.operand.place)
                  IN  IF ~d.ok THEN self
                      ELSE IF ~s.ok THEN self
                      ELSE handle_place_to_place(self, d.place, s.place)
             ELSE log_err(self, "UnsupportedConstantPointer")
        ELSE IF dst_is_ptr /\ ~src_is_ptr
        THEN log_err(self, "UnsupportedConstantPointer")
        ELSE self

\* the statement loop giving every StorageLive marker a location of its own
visit_statement_storage(self, stmt) ==
    IF stmt.kind = "Assign"
    THEN IF stmt.rvalue \in {"Use", "Cast"} THEN handle_assign(self, stmt)
         ELSE IF stmt.rvalue \in {"AddressOf", "Ref"} THEN handle_ref(self, stmt)
         ELSE IF stmt.rvalue \in {"BinaryOp", "CheckedBinaryOp", "UnaryOp"} THEN self
         ELSE log_err(self, "UnsupportedRvalue")
    ELSE IF stmt.kind = "StorageLive" THEN gen_location(self, "None").self
    ELSE IF stmt.kind \in {"StorageDead", "Nop"} THEN self
    ELSE log_err(self, "UnsupportedStatement")

\* the body of the statement loop of visit_body
visit_statement(self, stmt) ==
    IF stmt.kind = "Assign"
    THEN IF stmt.rvalue \in {"Use", "Cast"} THEN handle_assign(self, stmt)
         ELSE IF stmt.rvalue \in {"AddressOf", "Ref"} THEN handle_ref(self, stmt)
         ELSE IF stmt.rvalue \in {"BinaryOp", "CheckedBinaryOp", "UnaryOp"} THEN self
         ELSE log_err(self, "UnsupportedRvalue")
    ELSE IF stmt.kind \in {"StorageLive", "StorageDead", "Nop"} THEN self
    ELSE log_err(self, "UnsupportedStatement")

\* the locations of the declared locals collected in reverse
RECURSIVE instantiate_locals_reversed(_, _, _)
instantiate_locals_reversed(self, n, locations) ==
    IF Len(locations) = n THEN [self |-> self, locations |-> locations]
    ELSE LET g == gen_location(self, "Some")
         IN  instantiate_locals_reversed(g.self, n, <<g.location>> \o locations)

\* the locations of the declared locals, allocated in declaration order
RECURSIVE instantiate_locals(_, _, _)
instantiate_locals(self, n, locations) ==
    IF Len(locations) = n THEN [self |-> self, locations |-> locations]
    ELSE LET g == gen_location(self, "Some")
         IN  instantiate_locals(g.self, n, Append(locations, g.location))

\* ConstraintSet::constraints: the buckets of ids 0..num_locations-1 in turn,
\* each HashSet iterated in an order the hasher picks
RECURSIVE SeqsOfSet(_)
SeqsOfSet(S) ==
    IF S = {} THEN {<< >>}
    ELSE UNION {{<<x>> \o t : t \in SeqsOfSet(S \ {x})} : x \in S}

RECURSIVE constraints_from(_, _)
constraints_from(self, location_id) ==
    IF location_id >= num_locations(self) THEN {<< >>}
    ELSE {[i \in 1..Len(h) |-> <<location_id, h[i]>>] \o t :
            h \in SeqsOfSet(self.constraints[location_id + 1]),
            t \in constraints_from(self, location_id + 1)}

\* constraints() with the range of location ids starting at 1
constraints_iter_from_one(self) == constraints_from(self, 1)

constraints_iter(self) == constraints_from(self, 0)

SimpleAnderson_new ==
    [location_factory |-> LocationFactory_new, call_stack |-> << >>,
     constraints |-> << >>, local_var_map |-> EmptyMap,
     log |-> << >>, panicked |-> FALSE]

map_insert(m, key, value) ==
    [i \in DOMAIN m \cup {key} |-> IF i = key THEN value ELSE m[i]]

\* the statements of all basic blocks, in iteration order
RECURSIVE Flatten(_)
Flatten(blocks) ==
    IF blocks = << >> THEN << >> ELSE Head(blocks) \o Flatten(Tail(blocks))

RECURSIVE visit_statements(_, _, _)
visit_statements(self, stmts, i) ==
    IF i > Len(stmts) \/ self.panicked THEN self
    ELSE visit_statements(visit_statement(self, stmts[i]), stmts, i + 1)

\* visit_body from the allocation of the locals to the push on the call stack
enter_body(self, inst, body) ==
    LET a == instantiate_locals(self, body.local_decls, << >>)
    IN  [a.self EXCEPT !.local_var_map = map_insert(@, inst, a.locations),
                       !.call_stack = Append(@, inst)]

\* visit_body run to its end on the answer `body` of rcx.instance_body(inst)
visit_body(self, inst, body) ==
    IF analyzed(self, inst) THEN self
    ELSE IF ~body.ok THEN log_err(self, "BodyNotFound")
    ELSE LET done == visit_statements(enter_body(self, inst, body),
                                      Flatten(body.basic_blocks), 1)
         IN  IF done.panicked THEN done
             ELSE [done EXCEPT !.call_stack = SubSeq(@, 1, Len(@) - 1)]

\* analyze run to its end
analyze(self, inst, body) ==
    LET v == visit_body(clear(self), inst, body)
    IN  IF v.panicked THEN v ELSE log_err(v, "ConstraintCheck")

\* ------------------------------------------------------------------------
\* The state machine
\* ------------------------------------------------------------------------
Init ==
    /\ \/ bodies \in WidePrograms /\ calls_left = 1
       \/ bodies \in MenuPrograms /\ calls_left = MaxCalls
    /\ location_factory = SimpleAnderson_new.location_factory
    /\ call_stack = SimpleAnderson_new.call_stack
    /\ constraints = SimpleAnderson_new.constraints
    /\ local_var_map = SimpleAnderson_new.local_var_map
    /\ log = << >>
    /\ pc = "idle"
    /\ instance = "none"
    /\ bb = 0
    /\ st = 0
    /\ last_call = "new"
    /\ visited = FALSE

\* the engine's fields and the log take the values of r
Becomes(r) ==
    /\ location_factory' = r.location_factory
    /\ call_stack' = r.call_stack
    /\ constraints' = r.constraints
    /\ local_var_map' = r.local_var_map
    /\ log' = r.log

CurrentBody == bodies[instance]

\* pub fn clear, called by the driver
Clear ==
    /\ pc = "idle"
    /\ calls_left > 0
    /\ Becomes([clear(Self) EXCEPT !.log = << >>])
    /\ calls_left' = calls_left - 1
    /\ last_call' = "clear"
    /\ UNCHANGED <<bodies, pc, instance, bb, st, visited>>

\* pub fn analyze, up to the call of visit_body
AnalyzeReset(inst) ==
    /\ pc = "idle"
    /\ calls_left > 0
    /\ Becomes([clear(Self) EXCEPT !.log = << >>])
    /\ pc' = "visit"
    /\ instance' = inst
    /\ calls_left' = calls_left - 1
    /\ visited' = FALSE
    /\ UNCHANGED <<bodies, bb, st, last_call>>

\* visit_body: the instance was analyzed already
VisitAnalyzed ==
    /\ pc = "visit"
    /\ analyzed(Self, instance)
    /\ pc' = "return"
    /\ UNCHANGED <<bodies, location_factory, call_stack, constraints, local_var_map,
                   log, instance, bb, st, calls_left, last_call, visited>>

\* visit_body marking the instance as visited although it has no MIR
VisitBodyNotFoundMarked ==
    /\ pc = "visit"
    /\ ~analyzed(Self, instance)
    /\ ~CurrentBody.ok
    /\ Becomes([log_err(Self, "BodyNotFound")
                   EXCEPT !.local_var_map = map_insert(@, instance, << >>)])
    /\ pc' = "return"
    /\ UNCHANGED <<bodies, instance, bb, st, calls_left, last_call, visited>>

\* visit_body: no MIR for the instance
VisitBodyNotFound ==
    /\ pc = "visit"
    /\ ~analyzed(Self, instance)
    /\ ~CurrentBody.ok
    /\ Becomes(log_err(Self, "BodyNotFound"))
    /\ pc' = "return"
    /\ UNCHANGED <<bodies, instance, bb, st, calls_left, last_call, visited>>

\* visit_body: instantiate the locals, mark the instance, push it
VisitBodyEnter ==
    /\ pc = "visit"
    /\ ~analyzed(Self, instance)
    /\ CurrentBody.ok
    /\ Becomes(enter_body(Self, instance, CurrentBody))
    /\ pc' = "stmts"
    /\ bb' = 1
    /\ st' = 1
    /\ visited' = TRUE
    /\ UNCHANGED <<bodies, instance, calls_left, last_call>>

\* visit_body: one statement of the current basic block
VisitStatement ==
    /\ pc = "stmts"
    /\ bb <= Len(CurrentBody.basic_blocks)
    /\ st <= Len(CurrentBody.basic_blocks[bb])
    /\ LET r == visit_statement(Self, CurrentBody.basic_blocks[bb][st])
       IN  /\ Becomes(r)
           /\ pc' = IF r.panicked THEN "panicked" ELSE "stmts"
    /\ st' = st + 1
    /\ UNCHANGED <<bodies, instance, bb, calls_left, last_call, visited>>

\* visit_body: the statements of a block are done (its terminator is not handled)
VisitBlockEnd ==
    /\ pc = "stmts"
    /\ bb <= Len(CurrentBody.basic_blocks)
    /\ st > Len(CurrentBody.basic_blocks[bb])
    /\ bb' = bb + 1
    /\ st' = 1
    /\ UNCHANGED <<bodies, location_factory, call_stack, constraints, local_var_map,
                   log, pc, instance, calls_left, last_call, visited>>

\* visit_body returning without the pop of the call stack
VisitBodyExitNoPop ==
    /\ pc = "stmts"
    /\ bb > Len(CurrentBody.basic_blocks)
    /\ pc' = "return"
    /\ bb' = 0
    /\ st' = 0
    /\ UNCHANGED <<bodies, location_factory, call_stack, constraints, local_var_map, log,
                   instance, calls_left, last_call, visited>>

\* visit_body: all blocks are done, pop the instance
VisitBodyExit ==
    /\ pc = "stmts"
    /\ bb > Len(CurrentBody.basic_blocks)
    /\ call_stack' = SubSeq(call_stack, 1, Len(call_stack) - 1)
    /\ pc' = "return"
    /\ bb' = 0
    /\ st' = 0
    /\ UNCHANGED <<bodies, location_factory, constraints, local_var_map, log,
                   instance, calls_left, last_call, visited>>

\* analyze: after visit_body, log_err!(ConstraintCheck) and return
AnalyzeReturn ==
    /\ pc = "return"
    /\ Becomes(log_err(Self, "ConstraintCheck"))
    /\ pc' = "idle"
    /\ last_call' = instance
    /\ UNCHANGED <<bodies, instance, bb, st, calls_left, visited>>

Next ==
    \/ Clear
    \/ \E inst \in DOMAIN bodies : AnalyzeReset(inst)
    \/ VisitAnalyzed
    \/ VisitBodyNotFound
    \/ VisitBodyEnter
    \/ VisitStatement
    \/ VisitBlockEnd
    \/ VisitBodyExit
    \/ AnalyzeReturn

Spec == Init /\ [][Next]_vars

\* the steps of a running analyze call: once called, the function runs on
EngineStep ==
    \/ VisitAnalyzed
    \/ VisitBodyNotFound
    \/ VisitBodyEnter
    \/ VisitStatement
    \/ VisitBlockEnd
    \/ VisitBodyExit
    \/ AnalyzeReturn

\* the elements of a finite set, one after the other
RECURSIVE Enumerate(_)
Enumerate(S) ==
    IF S = {} THEN << >>
    ELSE LET x == CHOOSE y \in S : TRUE
         IN  <<x>> \o Enumerate(S \ {x})

\* bodies for the runs that are followed to their end: every statement of
\* the universe alone, and all of them in one block
FairBodies ==
    {MkBody(MaxLocals, <<l>>) : l \in StmtLists(MaxLocals, 1)}
    \cup {MkBody(MaxLocals, <<Enumerate(StmtUniverse(MaxLocals))>>)}

FairPrograms == {[i \in {"A"} |-> b] : b \in FairBodies}

FairInit ==
    /\ \/ bodies \in FairPrograms /\ calls_left = 1
       \/ bodies \in MenuPrograms /\ calls_left = MaxCalls
    /\ location_factory = SimpleAnderson_new.location_factory
    /\ call_stack = SimpleAnderson_new.call_stack
    /\ constraints = SimpleAnderson_new.constraints
    /\ local_var_map = SimpleAnderson_new.local_var_map
    /\ log = << >>
    /\ pc = "idle"
    /\ instance = "none"
    /\ bb = 0
    /\ st = 0
    /\ last_call = "new"
    /\ visited = FALSE

\* a call of analyze, once made, keeps running; the driver may stop calling
FairSpec == FairInit /\ [][Next]_vars /\ WF_vars(EngineStep)

\* ------------------------------------------------------------------------
\* What a caller observes
\* ------------------------------------------------------------------------
count(self) == num_locations(self)

\* the (location id, constraint) pairs held in the buckets
Pairs(self) ==
    UNION {{<<i - 1, c>> : c \in self.constraints[i]} : i \in 1..Len(self.constraints)}

Result(self) == [count |-> count(self), pairs |-> Pairs(self)]

AnalyzeReturned == pc = "idle" /\ last_call \in DOMAIN bodies

\* the step-by-step run of the first analyze call ends as the function does
StepsAgreeWithAnalyze ==
    (AnalyzeReturned /\ DOMAIN local_var_map \subseteq {last_call} /\ (visited \/ ~bodies[last_call].ok))
        => Self = analyze(SimpleAnderson_new, last_call, bodies[last_call])

\* ------------------------------------------------------------------------
\* Claims
\* ------------------------------------------------------------------------

\* C1: when analyze(B) starts right after analyze(A) returned, then after
\* the reset step and before visit_body's entry guard the memoization table
\* and the call stack are empty, and B has no declared-variable table
\* carried over from before.
C1_FreshAtTraversalStart ==
    (pc = "visit" /\ last_call \in DOMAIN bodies)
        => /\ local_var_map = EmptyMap
           /\ call_stack = << >>
           /\ instance \notin DOMAIN local_var_map

\* C2: analyze(X) on a used engine gives the count and the pairs that
\* analyze(X) gives on a freshly constructed engine.
C2_ReusableEngine ==
    AnalyzeReturned
        => Result(Self) = Result(analyze(SimpleAnderson_new, last_call, bodies[last_call]))

\* the number of Deref elements of a projection list
Depth(place) ==
    Cardinality({i \in 1..Len(place.projection) : place.projection[i] = "Deref"})

IsAssignStmt(stmt) == stmt.kind = "Assign" /\ stmt.rvalue \in {"Use", "Cast"}

IsRefStmt(stmt) == stmt.kind = "Assign" /\ stmt.rvalue \in {"AddressOf", "Ref"}

HasPlaceOperand(stmt) == IsAssignStmt(stmt) /\ stmt.operand.kind \in {"Copy", "Move"}

\* the places written in an assignment or reference statement
StmtPlaces(stmt) ==
    IF HasPlaceOperand(stmt) THEN {stmt.dst, stmt.operand.place}
    ELSE IF IsAssignStmt(stmt) THEN {stmt.dst}
    ELSE IF IsRefStmt(stmt) THEN {stmt.dst, stmt.src}
    ELSE {}

StmtsOf(body) == Flatten(body.basic_blocks)

\* no place of the body has indirection depth greater than 1
Shallow(body) ==
    \A i \in 1..Len(StmtsOf(body)) : \A p \in StmtPlaces(StmtsOf(body)[i]) : Depth(p) <= 1

\* a plain or cast assignment with a dereference on both sides
DerefBothSides(stmt) ==
    HasPlaceOperand(stmt) /\ Depth(stmt.dst) >= 1 /\ Depth(stmt.operand.place) >= 1

NoDerefBothSides(body) ==
    \A i \in 1..Len(StmtsOf(body)) : ~DerefBothSides(StmtsOf(body)[i])

\* the analyze call that returned last went through the body of its instance
TraversalReturned == AnalyzeReturned /\ visited

LastBody == bodies[last_call]

\* C3 as stated: after clear() the count is 0, and after analyze of an
\* instance with n declared locals and no place deeper than 1 the count is n.
C3_CountAsStated ==
    /\ (pc = "idle" /\ last_call = "clear") => count(Self) = 0
    /\ (TraversalReturned /\ Shallow(LastBody)) => count(Self) = LastBody.local_decls

\* C3 amended: after clear() the count is 0, and after an analyze call that
\* traverses an instance with n declared locals, no place deeper than 1 and
\* no plain or cast assignment dereferencing both sides, the count is n.
C3_CountShallow ==
    /\ (pc = "idle" /\ last_call = "clear") => count(Self) = 0
    /\ (TraversalReturned /\ Shallow(LastBody) /\ NoDerefBothSides(LastBody))
            => count(Self) = LastBody.local_decls

\* a traversal of a shallow body with a dereference in some statement has
\* returned with constraints and with one location per declared local
C3_Witness ==
    /\ TraversalReturned /\ Shallow(LastBody) /\ NoDerefBothSides(LastBody)
    /\ LastBody.local_decls = MaxLocals
    /\ \E i \in 1..Len(StmtsOf(LastBody)) :
          \E p \in StmtPlaces(StmtsOf(LastBody)[i]) : Depth(p) = 1
    /\ Pairs(Self) # {}
    /\ count(Self) = MaxLocals

\* the permutations of 1..m
Perms(m) == {f \in [1..m -> 1..m] : \A i, j \in 1..m : f[i] = f[j] => i = j}

\* a statement list cut into blocks of the lengths of `blocks`
RECURSIVE Reblock(_, _)
Reblock(stmts, blocks) ==
    IF blocks = << >> THEN << >>
    ELSE <<SubSeq(stmts, 1, Len(Head(blocks)))>>
         \o Reblock(SubSeq(stmts, Len(Head(blocks)) + 1, Len(stmts)), Tail(blocks))

\* the body whose i-th statement is the f[i]-th statement of `body`
PermuteBody(body, f) ==
    [body EXCEPT !.basic_blocks =
        Reblock([i \in 1..Len(StmtsOf(body)) |-> StmtsOf(body)[f[i]]], body.basic_blocks)]

\* the engine before each statement of a run on a new engine, and at its end
RECURSIVE StatesFrom(_, _, _)
StatesFrom(self, stmts, i) ==
    IF i > Len(stmts) THEN <<self>>
    ELSE <<self>> \o StatesFrom(visit_statement(self, stmts[i]), stmts, i + 1)

RunStates(inst, body) ==
    StatesFrom(enter_body(clear(SimpleAnderson_new), inst, body), StmtsOf(body), 1)

\* the location count before each statement, and at the end
Counts(states) == [i \in 1..Len(states) |-> count(states[i])]

\* the id, in the run of a body with n locals and the counts co, of the
\* location that has id `id` in the run of the body permuted by f, with the
\* counts cp: a declared local keeps its id, the t-th fresh location of a
\* statement is the t-th fresh location of that statement
RenameId(n, co, cp, f, id) ==
    IF id < n THEN id
    ELSE LET j == CHOOSE k \in 1..(Len(cp) - 1) : cp[k] <= id /\ id < cp[k + 1]
         IN  co[f[j]] + (id - cp[j])

RenamePairs(n, co, cp, f, pairs) ==
    {<<RenameId(n, co, cp, f, p[1]), [p[2] EXCEPT !.src = RenameId(n, co, cp, f, @)]>>
        : p \in pairs}

SameAllocations(co, cp, f) ==
    \A j \in 1..(Len(cp) - 1) : cp[j + 1] - cp[j] = co[f[j] + 1] - co[f[j]]

AnalyzeFresh(inst, body) == analyze(SimpleAnderson_new, inst, body)

\* C4 as stated: every permutation of the statements gives the same count
\* and the same set of (location id, constraint) pairs.
C4_OrderAsStated ==
    TraversalReturned =>
        \A f \in Perms(Len(StmtsOf(LastBody))) :
            Result(AnalyzeFresh(last_call, PermuteBody(LastBody, f))) = Result(Self)

\* C4 amended: every permutation of the statements gives the same count, each
\* statement allocates as many fresh locations in either order, and the pair
\* sets are equal once each statement's fresh ids are renamed to that
\* statement's fresh ids in the other order (declared locals keep their ids).
C4_OrderUpToRenaming ==
    TraversalReturned =>
        LET co == Counts(RunStates(last_call, LastBody))
        IN  \A f \in Perms(Len(StmtsOf(LastBody))) :
                LET run == RunStates(last_call, PermuteBody(LastBody, f))
                    r == run[Len(run)]
                    cp == Counts(run)
                IN  /\ count(r) = count(Self)
                    /\ SameAllocations(co, cp, f)
                    /\ RenamePairs(LastBody.local_decls, co, cp, f, Pairs(r)) = Pairs(Self)

\* a traversal has returned whose pairs differ from those of another order of
\* its statements, both orders having allocated fresh locations
C4_Witness ==
    /\ TraversalReturned
    /\ count(Self) >= LastBody.local_decls + 2
    /\ \E f \in Perms(Len(StmtsOf(LastBody))) :
          Pairs(AnalyzeFresh(last_call, PermuteBody(LastBody, f))) # Pairs(Self)

\* the pairs held in the buckets of ids 0..count()-1
BucketPairs ==
    UNION {{<<id, c>> : c \in constraints[id + 1]} : id \in 0..(count(Self) - 1)}

\* C5: whatever order the buckets are iterated in, the sequence returned by
\* constraints() is in non-decreasing location-id order, holds no pair twice
\* and holds exactly the pairs of the buckets of ids 0..count()-1.
C5_ConstraintsSequence ==
    \A out \in constraints_iter(Self) :
        /\ \A i, j \in 1..Len(out) : i < j => out[i][1] <= out[j][1]
        /\ \A i, j \in 1..Len(out) : out[i] = out[j] => i = j
        /\ {out[i] : i \in 1..Len(out)} = BucketPairs

\* after a statement, some bucket holds two constraints and a later bucket
\* holds one, so constraints() has several orders to return
C5_Witness ==
    /\ pc = "stmts" /\ st > 1
    /\ Cardinality(constraints_iter(Self)) >= 2
    /\ \E i, j \in 1..Len(constraints) :
          i < j /\ Cardinality(constraints[i]) >= 2 /\ constraints[j] # {}

\* ------------------------------------------------------------------------
\* One statement of the traversal
\* ------------------------------------------------------------------------
AtStatement ==
    /\ pc = "stmts"
    /\ bb <= Len(CurrentBody.basic_blocks)
    /\ st <= Len(CurrentBody.basic_blocks[bb])

CurStmt == CurrentBody.basic_blocks[bb][st]

\* the step that handles CurStmt
StatementStep == AtStatement /\ bb' = bb /\ st' = st + 1

\* the statement handled last in the current block
PrevStmt == CurrentBody.basic_blocks[bb][st - 1]

AfterStatement == pc = "stmts" /\ st > 1

OnlyDerefs(place) == \A i \in 1..Len(place.projection) : place.projection[i] = "Deref"

\* the statement reaches handle_place_to_place from handle_assign
AssignsPlace(stmt) ==
    /\ HasPlaceOperand(stmt) /\ stmt.dst_is_ptr /\ stmt.src_is_ptr
    /\ OnlyDerefs(stmt.dst) /\ OnlyDerefs(stmt.operand.place)

\* the statement is a reference whose two places lower
RefsPlace(stmt) ==
    IsRefStmt(stmt) /\ stmt.dst_is_ptr /\ OnlyDerefs(stmt.dst) /\ OnlyDerefs(stmt.src)

ReachesPlaceToPlace(stmt) ==
    AssignsPlace(stmt) \/ (RefsPlace(stmt) /\ Depth(stmt.src) >= 1)

\* the locals and depths handle_place_to_place is called with
P2PDstLocal(stmt) == stmt.dst.local

P2PDstDepth(stmt) == Depth(stmt.dst)

P2PSrcLocal(stmt) == IF IsRefStmt(stmt) THEN stmt.src.local ELSE stmt.operand.place.local

P2PSrcDepth(stmt) ==
    IF IsRefStmt(stmt) THEN Depth(stmt.src) - 1 ELSE Depth(stmt.operand.place)

Max(a, b) == IF a >= b THEN a ELSE b

\* m buckets of a chain of loads that starts at location `base`, the first of
\* them being the bucket of location id `first`
ChainBuckets(base, first, m) ==
    [j \in 1..m |-> {Constraint("Load", IF j = 1 THEN base ELSE first + j - 2)}]

Nones(m) == [j \in 1..m |-> "None"]

Fresh == Len(location_factory)

\* C6 as stated: a place-to-place assignment one of whose sides has depth
\* k >= 2, k being the larger depth, allocates k - 1 fresh locations, puts one
\* Load into each (from the base of the deep side, then from the previous
\* fresh location), and adds one more constraint, a Copy, Load or Store.
C6_ChainAsStated ==
    [][(StatementStep /\ ReachesPlaceToPlace(CurStmt)
            /\ Max(P2PDstDepth(CurStmt), P2PSrcDepth(CurStmt)) >= 2)
        => LET k == Max(P2PDstDepth(CurStmt), P2PSrcDepth(CurStmt))
               base == IF P2PSrcDepth(CurStmt) = k THEN P2PSrcLocal(CurStmt)
                       ELSE P2PDstLocal(CurStmt)
               old == UNION {{<<i, c>> : c \in constraints[i]} : i \in 1..Len(constraints)}
               new == UNION {{<<i, c>> : c \in constraints'[i]} : i \in 1..Len(constraints')}
           IN  /\ Len(location_factory') = Fresh + k - 1
               /\ Len(constraints') = Fresh + k - 1
               /\ \A j \in 1..(k - 1) :
                     {c \in constraints'[Fresh + j] : c.kind = "Load"}
                         = ChainBuckets(base, Fresh, k - 1)[j]
               /\ Cardinality(new \ old) = k
               /\ \A p \in new \ old : p[2].kind \in {"Copy", "Load", "Store"}]_vars

\* C6 amended: a place-to-place assignment with depth k >= 2 on one side and
\* depth 0 on the other allocates exactly k - 1 fresh locations holding a
\* chain of k - 1 Loads from the deep side's base, ended by one Load in the
\* destination's bucket (deep source) or one Store in the last fresh bucket
\* (deep destination); nothing else changes.
C6_ChainOneDeepSide ==
    [][(StatementStep /\ ReachesPlaceToPlace(CurStmt)
            /\ Max(P2PDstDepth(CurStmt), P2PSrcDepth(CurStmt)) >= 2
            /\ (P2PDstDepth(CurStmt) = 0 \/ P2PSrcDepth(CurStmt) = 0))
        => LET k == Max(P2PDstDepth(CurStmt), P2PSrcDepth(CurStmt))
               x == P2PDstLocal(CurStmt)
               y == P2PSrcLocal(CurStmt)
           IN  /\ location_factory' = location_factory \o Nones(k - 1)
               /\ log' = log
               /\ IF P2PDstDepth(CurStmt) = 0
                  THEN constraints' =
                         [(constraints \o ChainBuckets(y, Fresh, k - 1))
                            EXCEPT ![x + 1] = @ \cup {Constraint("Load", Fresh + k - 2)}]
                  ELSE constraints' =
                         [(constraints \o ChainBuckets(x, Fresh, k - 1))
                            EXCEPT ![Fresh + k - 1] = @ \cup {Constraint("Store", y)}]]_vars

\* the statement handled last assigned through a chain of the largest depth
\* with depth 0 on the other side, and the locations of the chain exist
C6_Witness ==
    /\ AfterStatement
    /\ ReachesPlaceToPlace(PrevStmt)
    /\ Max(P2PDstDepth(PrevStmt), P2PSrcDepth(PrevStmt)) = MaxDeref
    /\ (P2PDstDepth(PrevStmt) = 0 \/ P2PSrcDepth(PrevStmt) = 0)
    /\ MaxDeref >= 2
    /\ count(Self) >= CurrentBody.local_decls + MaxDeref - 1
    /\ \E i \in 1..Len(constraints) : \E c \in constraints[i] :
          c.kind \in {"Load", "Store"} /\ (i - 1 = count(Self) - 1 \/ c.src = count(Self) - 1)

\* C7: a reference assignment x = &y with both places of depth 0 inserts
\* AddrOf(y) into the bucket of x, allocates no location and changes no other
\* bucket.
C7_RefDepthZero ==
    [][(StatementStep /\ RefsPlace(CurStmt)
            /\ Depth(CurStmt.dst) = 0 /\ Depth(CurStmt.src) = 0)
        => /\ location_factory' = location_factory
           /\ constraints' = [constraints EXCEPT ![CurStmt.dst.local + 1] =
                                 @ \cup {Constraint("AddrOf", CurStmt.src.local)}]
           /\ Cardinality(Pairs([constraints |-> constraints'])) <= Cardinality(Pairs(Self)) + 1
           /\ log' = log]_vars

\* the statement handled last was x = &y between two different locals and
\* the bucket of x holds AddrOf(y)
C7_Witness ==
    /\ AfterStatement
    /\ RefsPlace(PrevStmt) /\ Depth(PrevStmt.dst) = 0 /\ Depth(PrevStmt.src) = 0
    /\ PrevStmt.dst.local # PrevStmt.src.local
    /\ Constraint("AddrOf", PrevStmt.src.local) \in constraints[PrevStmt.dst.local + 1]
    /\ count(Self) = CurrentBody.local_decls

\* C8: a reference assignment with source depth 0 and destination depth
\* d >= 1 allocates d - 1 fresh locations L1..L(d-1), puts Load(dst base) into
\* L1 and Load(L(i-1)) into Li, and inserts StoreAddr(src) into the last
\* location of the chain, which for d = 1 is the destination's base.
C8_RefStoreAddr ==
    [][(StatementStep /\ RefsPlace(CurStmt)
            /\ Depth(CurStmt.dst) >= 1 /\ Depth(CurStmt.src) = 0)
        => LET d == Depth(CurStmt.dst)
               x == CurStmt.dst.local
               y == CurStmt.src.local
               last == IF d = 1 THEN x ELSE Fresh + d - 2
           IN  /\ location_factory' = location_factory \o Nones(d - 1)
               /\ constraints' =
                     [(constraints \o ChainBuckets(x, Fresh, d - 1))
                        EXCEPT ![last + 1] = @ \cup {Constraint("StoreAddr", y)}]
               /\ log' = log]_vars

\* the statement handled last stored an address through the deepest
\* destination: the last location is fresh and holds the StoreAddr
C8_Witness ==
    /\ AfterStatement
    /\ RefsPlace(PrevStmt) /\ Depth(PrevStmt.dst) = MaxDeref /\ Depth(PrevStmt.src) = 0
    /\ MaxDeref >= 2
    /\ Constraint("StoreAddr", PrevStmt.src.local) \in constraints[count(Self)]
    /\ location_factory[count(Self)] = "None"

\* the plain assignment the reference dst = &src is rewritten to
DerefCancelled(stmt) ==
    AssignStmt("Use", stmt.dst,
               OperandPlace("Copy", MkPlace(stmt.src.local, Tail(stmt.src.projection))),
               TRUE, TRUE)

\* C9: a reference assignment dst = &src whose source has depth s >= 1 has
\* the effect of the plain assignment of dst from the same base at depth
\* s - 1; x = &*p with x of depth 0 inserts Copy(p) into the bucket of x and
\* nothing else.
C9_RefOfDeref ==
    [][(StatementStep /\ IsRefStmt(CurStmt) /\ CurStmt.dst_is_ptr
            /\ OnlyDerefs(CurStmt.src) /\ Depth(CurStmt.src) >= 1)
        => LET r == visit_statement(Self, DerefCancelled(CurStmt))
           IN  /\ location_factory' = r.location_factory
               /\ constraints' = r.constraints
               /\ log' = r.log
               /\ (Depth(CurStmt.src) = 1 /\ CurStmt.dst.projection = << >>)
                     => /\ location_factory' = location_factory
                        /\ constraints' = [constraints EXCEPT ![CurStmt.dst.local + 1] =
                                              @ \cup {Constraint("Copy", CurStmt.src.local)}]]_vars

\* the statement handled last was x = &*p and the bucket of x holds Copy(p)
C9_Witness ==
    /\ AfterStatement
    /\ RefsPlace(PrevStmt) /\ Depth(PrevStmt.dst) = 0 /\ Depth(PrevStmt.src) = 1
    /\ PrevStmt.dst.local # PrevStmt.src.local
    /\ Constraint("Copy", PrevStmt.src.local) \in constraints[PrevStmt.dst.local + 1]

\* a plain or cast assignment of a constant into a pointer-typed destination
ConstantIntoPointer(stmt) ==
    IsAssignStmt(stmt) /\ stmt.operand.kind = "Constant" /\ stmt.dst_is_ptr

\* the body without its i-th statement, as one basic block
WithoutStmt(body, i) ==
    MkBody(body.local_decls,
           <<SubSeq(StmtsOf(body), 1, i - 1) \o SubSeq(StmtsOf(body), i + 1, Len(StmtsOf(body)))>>)

\* C10: a plain or cast assignment of a constant into a pointer-typed
\* destination adds no constraint, allocates no location, reports exactly
\* one UnsupportedConstantPointer, and the traversal goes on: the statements
\* around it have the effect they have without it.
C10_ConstantPointer ==
    /\ [][(StatementStep /\ ConstantIntoPointer(CurStmt))
            => /\ constraints' = constraints
               /\ location_factory' = location_factory
               /\ log' = Append(log, "UnsupportedConstantPointer")
               /\ pc' = "stmts"
               /\ call_stack' = call_stack /\ local_var_map' = local_var_map]_vars
    /\ [](TraversalReturned =>
            \A i \in 1..Len(StmtsOf(LastBody)) :
                ConstantIntoPointer(StmtsOf(LastBody)[i])
                    => LET r == AnalyzeFresh(last_call, WithoutStmt(LastBody, i))
                       IN  /\ Result(Self) = Result(r)
                           /\ Len(log) = Len(r.log) + 1)

\* a traversal has returned in which a constant was assigned to a pointer
\* and the statement after it added a constraint
C10_Witness ==
    /\ TraversalReturned
    /\ Len(StmtsOf(LastBody)) >= 2
    /\ ConstantIntoPointer(StmtsOf(LastBody)[1])
    /\ ~ConstantIntoPointer(StmtsOf(LastBody)[2])
    /\ Pairs(Self) # {}
    /\ log = <<"UnsupportedConstantPointer", "ConstraintCheck">>

\* some place of the assignment or reference statement has a projection
\* element other than Deref
HasOtherProjection(stmt) ==
    (IsAssignStmt(stmt) \/ IsRefStmt(stmt)) /\ \E p \in StmtPlaces(stmt) : ~OnlyDerefs(p)

\* C11: a plain, cast or reference assignment one of whose places has a
\* projection other than Deref allocates no location and changes no bucket,
\* however deep the other place is, and the traversal goes on: the statements
\* around it have the effect they have without it.
C11_UnsupportedProjection ==
    /\ [][(StatementStep /\ HasOtherProjection(CurStmt))
            => /\ location_factory' = location_factory
               /\ constraints' = constraints
               /\ pc' = "stmts"
               /\ call_stack' = call_stack /\ local_var_map' = local_var_map]_vars
    /\ [](TraversalReturned =>
            \A i \in 1..Len(StmtsOf(LastBody)) :
                HasOtherProjection(StmtsOf(LastBody)[i])
                    => Result(Self) = Result(AnalyzeFresh(last_call, WithoutStmt(LastBody, i))))

\* a traversal has returned whose first statement had a field projection on
\* one side and a chain of dereferences on the other, and whose second
\* statement added a constraint; only the declared locals were allocated
C11_Witness ==
    /\ TraversalReturned
    /\ Len(StmtsOf(LastBody)) >= 2
    /\ HasOtherProjection(StmtsOf(LastBody)[1])
    /\ \E p \in StmtPlaces(StmtsOf(LastBody)[1]) : Depth(p) >= 2
    /\ ~HasOtherProjection(StmtsOf(LastBody)[2])
    /\ Pairs(Self) # {}
    /\ count(Self) = LastBody.local_decls

\* C12: an analyze call on an instance whose body is unavailable never
\* pushes the instance on the call stack nor records it in local_var_map,
\* reports BodyNotFound (of kind OutOfScope), and returns with count() = 0
\* and an empty sequence from constraints().
C12_BodyNotFound ==
    /\ (pc \in {"visit", "return"} /\ ~CurrentBody.ok)
          => /\ call_stack = << >>
             /\ instance \notin DOMAIN local_var_map
             /\ count(Self) = 0
    /\ (pc = "return" /\ ~CurrentBody.ok) => log = <<"BodyNotFound">>
    /\ (AnalyzeReturned /\ ~LastBody.ok)
          => /\ count(Self) = 0
             /\ constraints_iter(Self) = {<< >>}
             /\ call_stack = << >>
             /\ last_call \notin DOMAIN local_var_map
             /\ Head(log) = "BodyNotFound"
             /\ AnalysisError_kind(Head(log)) = "OutOfScope"
             /\ Cardinality({i \in 1..Len(log) : AnalysisError_kind(log[i]) = "OutOfScope"}) = 1

\* analyze of an instance without a body has returned on an engine that had
\* analyzed another instance before: nothing is allocated, the instance is
\* not recorded, BodyNotFound was reported
C12_Witness ==
    /\ AnalyzeReturned /\ ~LastBody.ok
    /\ local_var_map # EmptyMap
    /\ last_call \notin DOMAIN local_var_map
    /\ count(Self) = 0
    /\ log = <<"BodyNotFound", "ConstraintCheck">>

Min(a, b) == IF a <= b THEN a ELSE b

\* the dereferences written in the two places of a statement
TotalDepth(stmt) ==
    IF HasPlaceOperand(stmt) THEN Depth(stmt.dst) + Depth(stmt.operand.place)
    ELSE IF IsRefStmt(stmt) THEN Depth(stmt.dst) + Depth(stmt.src)
    ELSE 0

\* the places of a statement as lower_mir_place returns them
LoweredPlaces(self, stmt) ==
    {lower_mir_place(self, p).place : p \in {q \in StmtPlaces(stmt) : OnlyDerefs(q)}}

\* C13: every analyze call that has started returns to its caller, whatever
\* the instance and its statements are; a statement allocates at most as
\* many locations as its two places have dereferences; and a peeling loop
\* started on any place of a statement, with either loop condition, ends at
\* the loop's floor after one allocation per dereference it removed.
C13_AnalyzeCompletes ==
    /\ (pc = "visit") ~> (pc = "idle" /\ last_call = instance)
    /\ [][StatementStep
            => /\ pc' = "stmts"
               /\ Len(location_factory') - Len(location_factory)
                     \in 0..TotalDepth(CurStmt)]_vars
    /\ [](AtStatement =>
            \A place \in LoweredPlaces(Self, CurStmt) : \A floor \in 0..1 :
                LET p == peel(Self, place, floor)
                IN  /\ p.current.deref_count = Min(place.deref_count, floor)
                    /\ count(p.self) - count(Self)
                          = place.deref_count - p.current.deref_count)

\* an analyze call has returned after a statement that peeled both of its
\* places and a statement the engine does not support
C13_Witness ==
    /\ TraversalReturned
    /\ count(Self) >= LastBody.local_decls + MaxDeref
    /\ \E i \in 1..Len(log) : log[i] \in {"UnsupportedRvalue", "UnsupportedStatement"}
    /\ \E i \in 1..Len(StmtsOf(LastBody)) : DerefBothSides(StmtsOf(LastBody)[i])

\* the step of visit_body that has resolved the body, and the step that leaves
ResolvesBody == pc = "visit" /\ pc' = "stmts"

LeavesBody == pc = "stmts" /\ pc' # "stmts"

\* C14: within one analyze call the instance is inserted into local_var_map
\* at most once, and only when it is not there; the call stack changes only
\* by the push of the instance on the step that resolves the body and by
\* the pop on the step that leaves the body after its last block, each of
\* which happens once per call that resolves a body; the instance is the top
\* of the stack while its statements are handled; the stack is empty before
\* and after the traversal, so when analyze returns.
C14_StackDiscipline ==
    /\ [](pc = "stmts" => (call_stack # << >> /\ call_stack[Len(call_stack)] = instance
                              /\ Len(call_stack) = 1 /\ instance \in DOMAIN local_var_map))
    /\ [](pc \in {"idle", "visit", "return"} => call_stack = << >>)
    /\ [][(local_var_map' # local_var_map
               => (/\ ResolvesBody
                   /\ instance \notin DOMAIN local_var_map
                   /\ DOMAIN local_var_map' = DOMAIN local_var_map \cup {instance}
                   /\ \A i \in DOMAIN local_var_map : local_var_map'[i] = local_var_map[i]))
           /\ (call_stack' # call_stack
               => (\/ ResolvesBody /\ call_stack' = Append(call_stack, instance)
                   \/ LeavesBody /\ call_stack' = SubSeq(call_stack, 1, Len(call_stack) - 1)))
           /\ (ResolvesBody => (CurrentBody.ok /\ call_stack' = Append(call_stack, instance)))
           /\ (LeavesBody
               => (/\ pc' = "return"
                   /\ bb > Len(CurrentBody.basic_blocks)
                   /\ call_stack' = SubSeq(call_stack, 1, Len(call_stack) - 1)))
           /\ (pc' = "visit" => pc = "idle")
           /\ ((pc' = "stmts" /\ pc # "stmts") => pc = "visit")
           /\ (pc = "return" => pc' = "idle")]_vars

\* analyze has returned from the traversal of a body of several blocks on an
\* engine that holds two instances: the stack is empty again
C14_Witness ==
    /\ TraversalReturned
    /\ Len(LastBody.basic_blocks) >= 2 /\ Len(StmtsOf(LastBody)) >= 2
    /\ Cardinality(DOMAIN local_var_map) = 2
    /\ last_call \in DOMAIN local_var_map
    /\ call_stack = << >>

\* C15: in every state between two steps of the engine there are as many
\* buckets as locations; clear() leaves none of either; and an allocation
\* made in that state returns the id count(), adds one location and one
\* empty bucket for it, so that the ids in use are 0..count()-1.
C15_BucketsMatchLocations ==
    /\ Len(constraints) = count(Self)
    /\ DOMAIN constraints = {id + 1 : id \in 0..(count(Self) - 1)}
    /\ LET c == clear(Self)
       IN  count(c) = 0 /\ c.constraints = << >>
    /\ \A ty \in {"Some", "None"} :
          LET g == gen_location(Self, ty)
          IN  /\ g.location.id = count(Self)
              /\ count(g.self) = count(Self) + 1
              /\ Len(g.self.constraints) = count(g.self)
              /\ g.self.constraints = Append(constraints, {})
    /\ pc = "stmts"
          => {local_var_map[instance][i].id : i \in 1..Len(local_var_map[instance])}
                \cup {k - 1 : k \in {j \in 1..count(Self) : location_factory[j] = "None"}}
             = 0..(count(Self) - 1)

\* a statement has just allocated a location by peeling: it is the last one
\* and has a bucket
C15_Witness ==
    /\ AfterStatement
    /\ count(Self) > CurrentBody.local_decls
    /\ CurrentBody.local_decls > 0
    /\ location_factory[count(Self)] = "None"
    /\ Len(constraints) = count(Self)
    /\ constraints[count(Self)] # {}

\* C16: the table of an analyzed instance with n declared locals maps its
\* i-th local to the location of id i, typed as declared; when the first
\* statement is reached exactly these n locations exist, with empty buckets;
\* and while statements are handled every location of id below n is a
\* declared local and every location made by peeling has an id of n or more.
C16_LocalsFirst ==
    /\ \A inst \in DOMAIN local_var_map :
          local_var_map[inst] = [i \in 1..bodies[inst].local_decls |-> Location(i - 1, "Some")]
    /\ (pc = "stmts" /\ bb = 1 /\ st = 1)
          => /\ count(Self) = CurrentBody.local_decls
             /\ \A k \in 1..Len(constraints) : constraints[k] = {}
    /\ pc = "stmts"
          => /\ count(Self) >= CurrentBody.local_decls
             /\ \A i \in 0..(CurrentBody.local_decls - 1) :
                   local_to_location(Self, i).id = i /\ location_factory[i + 1] = "Some"
             /\ \A k \in 1..count(Self) :
                   location_factory[k] = "None" <=> k - 1 >= CurrentBody.local_decls

\* a statement of a body with the most locals has peeled: the last local
\* still has the id of its position and the fresh location the next id
C16_Witness ==
    /\ AfterStatement
    /\ CurrentBody.local_decls = MaxLocals
    /\ count(Self) > MaxLocals
    /\ local_to_location(Self, MaxLocals - 1).id = MaxLocals - 1
    /\ location_factory[MaxLocals + 1] = "None"

\* the statement is not an assignment from Use, Cast, AddressOf or Ref
Unhandled(stmt) == ~IsAssignStmt(stmt) /\ ~IsRefStmt(stmt)

\* what visit_body reports for such a statement
UnhandledReport(stmt) ==
    IF stmt.kind = "Assign"
    THEN IF stmt.rvalue \in {"BinaryOp", "CheckedBinaryOp", "UnaryOp"} THEN << >>
         ELSE <<"UnsupportedRvalue">>
    ELSE IF stmt.kind \in {"StorageLive", "StorageDead", "Nop"} THEN << >>
    ELSE <<"UnsupportedStatement">>

\* C17: a statement that is not an assignment from Use, Cast, AddressOf or
\* Ref allocates no location and changes no bucket (it is at most reported),
\* and the traversal goes on: the statements around it have the effect they
\* have without it.
C17_OtherStatements ==
    /\ [][(StatementStep /\ Unhandled(CurStmt))
            => /\ location_factory' = location_factory
               /\ constraints' = constraints
               /\ call_stack' = call_stack /\ local_var_map' = local_var_map
               /\ log' = log \o UnhandledReport(CurStmt)
               /\ pc' = "stmts"]_vars
    /\ [](TraversalReturned =>
            \A i \in 1..Len(StmtsOf(LastBody)) :
                Unhandled(StmtsOf(LastBody)[i])
                    => Result(Self) = Result(AnalyzeFresh(last_call, WithoutStmt(LastBody, i))))

\* a traversal has returned whose first statement was reported as
\* unsupported and whose second statement added a constraint
C17_Witness ==
    /\ TraversalReturned
    /\ Len(StmtsOf(LastBody)) >= 2
    /\ Unhandled(StmtsOf(LastBody)[1])
    /\ ~Unhandled(StmtsOf(LastBody)[2])
    /\ Pairs(Self) # {}
    /\ Len(log) = 2 /\ log[1] \in {"UnsupportedRvalue", "UnsupportedStatement"}

\* C18: handle_place_to_place with destination depth d >= 1 and source depth
\* s >= 0 allocates s + d - 1 locations: first s for the source, a chain of
\* Loads from the source's base down to depth 0, then d - 1 for the
\* destination, a chain of Loads from the destination's base down to depth 1;
\* then it inserts one Store of the last source location into the bucket of
\* the last destination location.  Nothing else changes; for s = 0 and d = 1
\* that is Store(src) in the bucket of dst alone.
C18_StoreChains ==
    [][(StatementStep /\ ReachesPlaceToPlace(CurStmt) /\ P2PDstDepth(CurStmt) >= 1)
        => LET d == P2PDstDepth(CurStmt)
               sd == P2PSrcDepth(CurStmt)
               x == P2PDstLocal(CurStmt)
               y == P2PSrcLocal(CurStmt)
               final_src == IF sd = 0 THEN y ELSE Fresh + sd - 1
               final_dst == IF d = 1 THEN x ELSE Fresh + sd + d - 2
           IN  /\ location_factory' = location_factory \o Nones(sd + d - 1)
               /\ constraints' =
                     [(constraints \o ChainBuckets(y, Fresh, sd)
                                   \o ChainBuckets(x, Fresh + sd, d - 1))
                        EXCEPT ![final_dst + 1] = @ \cup {Constraint("Store", final_src)}]
               /\ log' = log]_vars

\* the statement handled last stored through a destination of depth 2 or
\* more from a dereferenced source: the last location is the end of the
\* destination's chain and holds the Store of the end of the source's chain
C18_Witness ==
    /\ AfterStatement
    /\ ReachesPlaceToPlace(PrevStmt)
    /\ P2PDstDepth(PrevStmt) >= 2 /\ P2PSrcDepth(PrevStmt) >= 1
    /\ count(Self) >= CurrentBody.local_decls + P2PDstDepth(PrevStmt) + P2PSrcDepth(PrevStmt) - 1
    /\ Constraint("Store", count(Self) - P2PDstDepth(PrevStmt)) \in constraints[count(Self)]

\* C19: a plain or cast assignment changes a bucket or allocates only when
\* both sides are pointer-typed and the source is a place; with a
\* pointer-typed destination and a source that is not pointer-typed, constant
\* or place, it changes nothing and reports UnsupportedConstantPointer once,
\* as it does for a constant pointer; with a destination that is not
\* pointer-typed it changes nothing and reports nothing.
C19_AssignTyping ==
    [][(StatementStep /\ IsAssignStmt(CurStmt))
        => /\ (constraints' # constraints \/ location_factory' # location_factory)
                => (CurStmt.dst_is_ptr /\ CurStmt.src_is_ptr /\ HasPlaceOperand(CurStmt))
           /\ (CurStmt.dst_is_ptr /\ ~CurStmt.src_is_ptr)
                => (/\ constraints' = constraints
                    /\ location_factory' = location_factory
                    /\ log' = Append(log, "UnsupportedConstantPointer"))
           /\ (CurStmt.dst_is_ptr /\ CurStmt.src_is_ptr /\ ~HasPlaceOperand(CurStmt))
                => log' = Append(log, "UnsupportedConstantPointer")
           /\ ~CurStmt.dst_is_ptr
                => (/\ constraints' = constraints
                    /\ location_factory' = location_factory
                    /\ log' = log)
           /\ pc' = "stmts"]_vars

\* a traversal has returned that assigned a place that is not pointer-typed
\* to a pointer, then a dereferenced pointer to a destination that is not
\* pointer-typed: one report, no constraint, no fresh location
C19_Witness ==
    /\ TraversalReturned
    /\ Len(StmtsOf(LastBody)) = 2
    /\ LET s1 == StmtsOf(LastBody)[1]
           s2 == StmtsOf(LastBody)[2]
       IN  /\ HasPlaceOperand(s1) /\ s1.dst_is_ptr /\ ~s1.src_is_ptr
           /\ HasPlaceOperand(s2) /\ ~s2.dst_is_ptr /\ s2.src_is_ptr
           /\ Depth(s2.operand.place) >= 1
    /\ log = <<"UnsupportedConstantPointer", "ConstraintCheck">>
    /\ Pairs(Self) = {}
    /\ count(Self) = LastBody.local_decls

\* the location was made by a peeling loop (gen_location(None))
Synthetic(id) == location_factory[id + 1] = "None"

\* C20: every bucket belongs to a location and every constraint names a
\* location that exists; the bucket of a location made by peeling holds
\* exactly one Load, whose source is a location of a smaller id, and no
\* AddrOf nor Copy; and no AddrOf or StoreAddr has such a location as source.
C20_WellFormedBuckets ==
    /\ \A i \in 1..Len(constraints) :
          /\ i - 1 < count(Self)
          /\ \A c \in constraints[i] : c.src \in 0..(count(Self) - 1)
    /\ \A id \in 0..(count(Self) - 1) :
          Synthetic(id)
            => /\ Cardinality({c \in constraints[id + 1] : c.kind = "Load"}) = 1
               /\ \A c \in constraints[id + 1] : c.kind = "Load" => c.src < id
               /\ \A c \in constraints[id + 1] : c.kind \notin {"AddrOf", "Copy"}
    /\ \A i \in 1..Len(constraints) : \A c \in constraints[i] :
          c.kind \in {"AddrOf", "StoreAddr"} => ~Synthetic(c.src)

\* two or more locations were made by peeling, the last of them holds its
\* Load and a Store or StoreAddr besides, and some bucket holds an AddrOf or
\* StoreAddr
C20_Witness ==
    /\ pc = "stmts"
    /\ count(Self) >= CurrentBody.local_decls + 2
    /\ Synthetic(count(Self) - 1)
    /\ Cardinality(constraints[count(Self)]) >= 2
    /\ \E i \in 1..Len(constraints) : \E c \in constraints[i] :
          c.kind \in {"AddrOf", "StoreAddr"}

====
